---------------------------- MODULE Spec2Model ----------------------------
(***************************************************************************)
(* A state-machine model of src/ai_sorter.py: the virtual conveyor, the    *)
(* virtual gate actuator, the colour detector and the driving loop of      *)
(* AutomatedSorter.run.                                                    *)
(*                                                                         *)
(* Numbers.  The actuator position is a Python float (IEEE-754 binary64)   *)
(* that is only ever changed by adding or subtracting the double written   *)
(* 0.1.  Every value it can take is an integer multiple of 2^-55 of        *)
(* magnitude below 2, so a double is kept here exactly, as a sign and a    *)
(* magnitude counted in units of 2^-55; the magnitude is hi * 2^28 + lo    *)
(* (two limbs, because TLC's integers are 32 bits wide).  An addition is   *)
(* the exact sum followed by rounding to 53 significant bits, ties to      *)
(* even, which is what binary64 addition does.                             *)
(* The conveyor positions are multiples of 0.5 far below 2^52, which       *)
(* binary64 adds without rounding; they are counted in units of 0.5.       *)
(***************************************************************************)
EXTENDS Integers, Sequences, FiniteSets

VARIABLES
    target_color,    \* AutomatedSorter.target_color
    sorted_counts,   \* AutomatedSorter.sorted_counts
    gate,            \* AutomatedSorter.gate: [position, target]
    conveyor,        \* AutomatedSorter.conveyor: [position, objects]
    running,         \* TRUE while the loop of run() has not met `break`
    ticks,           \* the number of loop iterations completed
    frame,           \* run(): the local `frame` of the last iteration
    color,           \* run(): the local `color` of the last iteration
    gate_pos,        \* run(): the local `gate_pos` (last result of gate.update())
    active_objects,  \* run(): the local `active_objects` (last result of conveyor.update())
    key,             \* run(): the local `key` of the last iteration
    log,             \* history: <<color, target_color compared>> of each iteration so far
    gate_calls,      \* history: gate.update() calls since the last set_position
    gate_from,       \* history: gate.position at the last set_position
    error            \* the exception that ended run(), "none" while there is none

vars == <<target_color, sorted_counts, gate, conveyor, running, ticks, frame,
          color, gate_pos, active_objects, key, log, gate_calls, gate_from, error>>

-----------------------------------------------------------------------------
(* Bounds of the model *)

\* iterations of the loop of run() that are explored
MaxTicks == 3
\* the loop of run() is let spawn an object during its first SpawnTicks iterations
SpawnTicks == 1
\* identifiers random.randint is let draw on a stand-alone conveyor:
\* IdLow .. IdLow + NumIds - 1
NumIds == 2
\* identifiers random.randint is let draw in the loop of run():
\* IdLow .. IdLow + LoopIds - 1
LoopIds == 1
\* calls explored on a stand-alone actuator
MaxGateCalls == 13
\* update() calls explored on a stand-alone conveyor
MaxUpdates == 202
\* add_object calls explored on a stand-alone conveyor
MaxTokens == 2
\* on a stand-alone conveyor, add_object is called during the first SpawnWindow updates
SpawnWindow == 3
\* the largest number of pixels of one colour in a frame handed to detect() alone
MaxPixels == 2

-----------------------------------------------------------------------------
(* class ObjectColor *)

RED == "RED"
GREEN == "GREEN"
BLUE == "BLUE"
UNKNOWN == "UNKNOWN"
ObjectColor == {RED, GREEN, BLUE, UNKNOWN}

\* `color` before the first detect() call
NoColor == "NONE"

-----------------------------------------------------------------------------
(* binary64 arithmetic on the values the actuator takes *)

LimbBase == 2^28

Float(neg, hi, lo) == [neg |-> neg, hi |-> hi, lo |-> lo]

\* 0 and 1, the int literals of the source, as doubles
FZero == Float(FALSE, 0, 0)
FOne == Float(FALSE, 2^27, 0)
\* the double written 0.1: 3602879701896397 * 2^-55
FTenth == Float(FALSE, 13421772, 214748365)
\* the double written 0.99 (the threshold of C7): 35668509048774328 * 2^-55
F099 == Float(FALSE, 132875550, 193273528)

IntToFloat(n) == Float(FALSE, n * 2^27, 0)

MagLt(a, b) == a.hi < b.hi \/ (a.hi = b.hi /\ a.lo < b.lo)

MagAdd(a, b) ==
    LET s == a.lo + b.lo
    IN  [hi |-> a.hi + b.hi + (s \div LimbBase), lo |-> s % LimbBase]

\* a - b for a >= b
MagSub(a, b) ==
    LET d == a.lo - b.lo
    IN  IF d >= 0 THEN [hi |-> a.hi - b.hi, lo |-> d]
                  ELSE [hi |-> a.hi - b.hi - 1, lo |-> d + LimbBase]

\* the spacing of doubles around a magnitude below 2, in units of 2^-55
Ulp(m) ==
    IF m.hi >= 2^27 THEN 8
    ELSE IF m.hi >= 2^26 THEN 4
    ELSE IF m.hi >= 2^25 THEN 2
    ELSE 1

\* round to nearest, ties to even
RoundMag(m) ==
    LET q    == Ulp(m)
        r    == m.lo % q
        down == m.lo - r
        up   == (2 * r > q) \/ (2 * r = q /\ (down \div q) % 2 = 1)
        lo2  == IF up THEN down + q ELSE down
    IN  [hi |-> m.hi + (lo2 \div LimbBase), lo |-> lo2 % LimbBase]

Signed(neg, m) == Float(neg /\ (m.hi # 0 \/ m.lo # 0), m.hi, m.lo)

FAdd(a, b) ==
    IF a.neg = b.neg THEN Signed(a.neg, RoundMag(MagAdd(a, b)))
    ELSE IF MagLt(a, b) THEN Signed(b.neg, RoundMag(MagSub(b, a)))
    ELSE Signed(a.neg, RoundMag(MagSub(a, b)))

FNeg(a) == Signed(~a.neg, a)

FSub(a, b) == FAdd(a, FNeg(b))

FLt(a, b) ==
    IF a.neg # b.neg THEN a.neg
    ELSE IF a.neg THEN MagLt(b, a)
    ELSE MagLt(a, b)

FLe(a, b) == ~FLt(b, a)

-----------------------------------------------------------------------------
(* class VirtualActuator *)

VirtualActuator == [position |-> FZero, target |-> 0]

\* set_position that also puts the gate at the commanded position
set_position_snap(g, pos) == [position |-> IntToFloat(pos), target |-> pos]

set_position(g, pos) == [g EXCEPT !.target = pos]

\* Actuator_update with the two comparisons exchanged: the position moves away
\* from the target
Actuator_update_away(g) ==
    IF FLt(IntToFloat(g.target), g.position)
        THEN [g EXCEPT !.position = FAdd(g.position, FTenth)]
    ELSE IF FLt(g.position, IntToFloat(g.target))
        THEN [g EXCEPT !.position = FSub(g.position, FTenth)]
    ELSE g

Actuator_update(g) ==
    IF FLt(g.position, IntToFloat(g.target))
        THEN [g EXCEPT !.position = FAdd(g.position, FTenth)]
    ELSE IF FLt(IntToFloat(g.target), g.position)
        THEN [g EXCEPT !.position = FSub(g.position, FTenth)]
    ELSE g

-----------------------------------------------------------------------------
(* class VirtualConveyor; positions in units of 0.5 *)

\* self.speed = 0.5
Speed == 1
\* the 100 of `obj["position"] < 100`
TravelLimit == 200

IdLow == 1000
IdHigh == 9999
\* the identifiers random.randint(1000, 9999) is let return
IdsUpTo(n) == {i \in IdLow .. (IdLow + n - 1) : i <= IdHigh}
Ids == IdsUpTo(NumIds)

VirtualConveyor == [position |-> 0, objects |-> <<>>]

\* add_object putting the new token in front of the stored ones
add_object_front(c, col, id) ==
    [c EXCEPT !.objects = <<[color |-> col, position |-> 0, id |-> id]>> \o @]

add_object(c, col, id) ==
    [c EXCEPT !.objects = Append(@, [color |-> col, position |-> 0, id |-> id])]

\* Conveyor_update giving every object the belt's own position
Conveyor_update_belt(c) ==
    [position |-> c.position + Speed,
     objects  |-> [i \in 1 .. Len(c.objects) |->
                      [c.objects[i] EXCEPT !.position = c.position + Speed]]]

\* Conveyor_update storing only the tokens it returns
Conveyor_update_remove(c) ==
    LET Kept(obj) == obj.position < TravelLimit
    IN  [position |-> c.position + Speed,
         objects  |-> SelectSeq([i \in 1 .. Len(c.objects) |->
                                    [c.objects[i] EXCEPT !.position = @ + Speed]], Kept)]

\* the conveyor after update(): every stored object is advanced, none is dropped
Conveyor_update(c) ==
    [position |-> c.position + Speed,
     objects  |-> [i \in 1 .. Len(c.objects) |->
                      [c.objects[i] EXCEPT !.position = @ + Speed]]]

InTravel(obj) == obj.position < TravelLimit

\* what update() returns, given the conveyor it leaves
Conveyor_update_result(c) == SelectSeq(c.objects, InTravel)

-----------------------------------------------------------------------------
(* frames: a frame is kept as the number of its pixels of each BGR value,  *)
(* which is all that inRange and countNonZero read of it                   *)

Black == <<0, 0, 0>>
RedBGR == <<0, 0, 255>>
GreenBGR == <<0, 255, 0>>
BlueBGR == <<255, 0, 0>>
Palette == {Black, RedBGR, GreenBGR, BlueBGR}

\* np.zeros((300, 400, 3)): 300 rows of 400 pixels
FramePixels == 300 * 400
\* cv2.rectangle(frame, (50, 50), (350, 250), color, -1): both corners included
RectPixels == (350 - 50 + 1) * (250 - 50 + 1)

\* the colours random.choice draws in generate_frame
CameraColors == {RedBGR, GreenBGR, BlueBGR}

generate_frame(c) ==
    [p \in Palette |-> IF p = c THEN RectPixels
                       ELSE IF p = Black THEN FramePixels - RectPixels
                       ELSE 0]

\* `frame` before the first iteration: no pixels
NoFrame == [p \in Palette |-> 0]

\* a frame of one channel, as np.zeros((300, 400)) is: its pixel values are 1-tuples
GreyFrame == [p \in {<<0>>} |-> FramePixels]

\* the number of channels of a frame: the length of its pixel values
Channels(fr) == CHOOSE n \in 1 .. 4 : \A p \in DOMAIN fr : Len(p) = n

-----------------------------------------------------------------------------
(* class AIColorDetector *)

lower_red == <<0, 100, 100>>
upper_red == <<10, 255, 255>>
lower_green == <<40, 100, 100>>
upper_green == <<80, 255, 255>>
lower_blue == <<100, 100, 100>>
upper_blue == <<140, 255, 255>>

Max2(a, b) == IF a >= b THEN a ELSE b
Min2(a, b) == IF a <= b THEN a ELSE b

\* n / d rounded to nearest, for n >= 0 and d > 0
RoundDiv(n, d) == (2 * n + d) \div (2 * d)

\* cv2.cvtColor(., COLOR_BGR2HSV) on one 8-bit pixel: V = max, S = 255 (V - min) / V,
\* H = the hue angle in degrees halved
Hsv(px) ==
    LET b  == px[1]
        g  == px[2]
        r  == px[3]
        v  == Max2(r, Max2(g, b))
        mn == Min2(r, Min2(g, b))
        d  == v - mn
        s  == IF v = 0 THEN 0 ELSE RoundDiv(255 * d, v)
        hn == IF d = 0 THEN 0
              ELSE IF v = r THEN 60 * (g - b)
              ELSE IF v = g THEN 120 * d + 60 * (b - r)
              ELSE 240 * d + 60 * (r - g)
        hp == IF hn < 0 THEN hn + 360 * d ELSE hn
        h  == IF d = 0 THEN 0 ELSE RoundDiv(hp, 2 * d)
    IN  <<h, s, v>>

\* cv2.cvtColor(frame, cv2.COLOR_BGR2HSV) raises cv2.error unless the frame has 3
\* or 4 channels
cvtColor_raises(fr) == Channels(fr) \notin {3, 4}

\* cv2.inRange on one pixel
inRange(hsv, lower, upper) ==
    \A i \in 1 .. 3 : lower[i] <= hsv[i] /\ hsv[i] <= upper[i]

RECURSIVE SumOver(_, _)
SumOver(S, f) ==
    IF S = {} THEN 0
    ELSE LET x == CHOOSE y \in S : TRUE
         IN  f[x] + SumOver(S \ {x}, f)

\* cv2.inRange(hsv, lower, upper): the pixel values the mask keeps
mask(lower, upper) == {p \in Palette : inRange(Hsv(p), lower, upper)}

mask_red == mask(lower_red, upper_red)
mask_green == mask(lower_green, upper_green)
mask_blue == mask(lower_blue, upper_blue)

\* cv2.countNonZero of a mask of the frame
countNonZero(fr, m) == SumOver(m, fr)

\* dominant with >= for > in the first test: red wins its ties
dominant_ties(red_pixels, green_pixels, blue_pixels) ==
    IF red_pixels >= green_pixels /\ red_pixels >= blue_pixels THEN RED
    ELSE IF green_pixels > red_pixels /\ green_pixels > blue_pixels THEN GREEN
    ELSE IF blue_pixels > red_pixels /\ blue_pixels > green_pixels THEN BLUE
    ELSE UNKNOWN

\* the decision of detect() on the three counts
dominant(red_pixels, green_pixels, blue_pixels) ==
    IF red_pixels > green_pixels /\ red_pixels > blue_pixels THEN RED
    ELSE IF green_pixels > red_pixels /\ green_pixels > blue_pixels THEN GREEN
    ELSE IF blue_pixels > red_pixels /\ blue_pixels > green_pixels THEN BLUE
    ELSE UNKNOWN

red_count(fr) == countNonZero(fr, mask_red)
green_count(fr) == countNonZero(fr, mask_green)
blue_count(fr) == countNonZero(fr, mask_blue)

detect(fr) == dominant(red_count(fr), green_count(fr), blue_count(fr))

-----------------------------------------------------------------------------
(* class AutomatedSorter *)

\* the colours random.choice draws for a new object
SpawnColors == {RED, GREEN, BLUE}

\* what cv2.waitKey returns: one of the four keys the loop reads, or "none" for
\* the -1 of no key and for every other key code, which take the same path
Keys == {"q", "r", "g", "b", "none"}

\* a tick's spawn decision: <<>> (random.random() >= 0.03) or one new object
Spawns ==
    {<<>>} \cup {<<[color |-> c, id |-> i]>> : c \in SpawnColors, i \in IdsUpTo(LoopIds)}

\* "2. Control System": the gate command
GateCommand(det, tgt) == IF det = tgt THEN 1 ELSE 0

\* Tally with the increment outside the `if`: every detection is counted
Tally_every(counts, det, tgt) == [counts EXCEPT ![det] = @ + 1]

\* Tally that starts the other colours' counts again on a match
Tally_restart(counts, det, tgt) ==
    IF det = tgt THEN [c \in ObjectColor |-> IF c = det THEN counts[c] + 1 ELSE 0]
    ELSE counts

\* "2. Control System": the tally
Tally(counts, det, tgt) ==
    IF det = tgt THEN [counts EXCEPT ![det] = @ + 1] ELSE counts

\* KeyTarget with 'b' selecting the enum's last member
KeyTarget_last(k, tgt) ==
    IF k = "r" THEN RED
    ELSE IF k = "g" THEN GREEN
    ELSE IF k = "b" THEN UNKNOWN
    ELSE tgt

\* "Key controls"
KeyTarget(k, tgt) ==
    IF k = "r" THEN RED
    ELSE IF k = "g" THEN GREEN
    ELSE IF k = "b" THEN BLUE
    ELSE tgt

\* "Add new objects randomly"
Spawned(c, sp) ==
    IF sp = <<>> THEN c ELSE add_object(c, sp[1].color, sp[1].id)

\* the state after __init__
Init ==
    /\ target_color = RED
    /\ sorted_counts = [c \in ObjectColor |-> 0]
    /\ gate = VirtualActuator
    /\ conveyor = VirtualConveyor
    /\ running = TRUE
    /\ ticks = 0
    /\ frame = NoFrame
    /\ color = NoColor
    /\ gate_pos = FZero
    /\ active_objects = <<>>
    /\ key = "none"
    /\ log = <<>>
    /\ gate_calls = 0
    /\ gate_from = FZero
    /\ error = "none"

\* LoopBody with "3. Actuator Update" ahead of "2. Control System": the gate
\* steps toward the command of the iteration before
LoopBody_update_first(fc, sp, k, tgt) ==
    \E fr \in {generate_frame(fc)} : \E det \in {detect(fr)} :
    \E g2 \in {set_position(Actuator_update(gate), GateCommand(det, tgt))} :
    \E c1 \in {Conveyor_update(conveyor)} :
        /\ frame' = fr
        /\ color' = det
        /\ sorted_counts' = Tally(sorted_counts, det, tgt)
        /\ gate' = g2
        /\ gate_pos' = g2.position
        /\ conveyor' = Spawned(c1, sp)
        /\ active_objects' = Conveyor_update_result(c1)
        /\ key' = k
        /\ running' = (k # "q")
        /\ target_color' = KeyTarget(k, target_color)
        /\ ticks' = ticks + 1
        /\ log' = Append(log, <<det, tgt>>)
        /\ gate_from' = gate.position
        /\ gate_calls' = 1
        /\ error' = error

\* Steps with the spawn moved before the conveyor step
Steps_spawn_first(fr, det, sp, k, tgt) ==
    \E g2 \in {Actuator_update(set_position(gate, GateCommand(det, tgt)))} :
    \E c1 \in {Conveyor_update(Spawned(conveyor, sp))} :
        /\ frame' = fr
        /\ color' = det
        /\ sorted_counts' = Tally(sorted_counts, det, tgt)
        /\ gate' = g2
        /\ gate_pos' = g2.position
        /\ conveyor' = c1
        /\ active_objects' = Conveyor_update_result(c1)
        /\ key' = k
        /\ running' = (k # "q")
        /\ target_color' = KeyTarget(k, target_color)
        /\ ticks' = ticks + 1
        /\ log' = Append(log, <<det, tgt>>)
        /\ gate_from' = gate.position
        /\ gate_calls' = 1
        /\ error' = error

\* the steps of one iteration after detect() has returned det for the frame fr
Steps(fr, det, sp, k, tgt) ==
    \E g2 \in {Actuator_update(set_position(gate, GateCommand(det, tgt)))} :
    \E c1 \in {Conveyor_update(conveyor)} :
        /\ frame' = fr
        /\ color' = det
        /\ sorted_counts' = Tally(sorted_counts, det, tgt)
        /\ gate' = g2
        /\ gate_pos' = g2.position
        /\ conveyor' = Spawned(c1, sp)
        /\ active_objects' = Conveyor_update_result(c1)
        /\ key' = k
        /\ running' = (k # "q")
        /\ target_color' = KeyTarget(k, target_color)
        /\ ticks' = ticks + 1
        /\ log' = Append(log, <<det, tgt>>)
        /\ gate_from' = gate.position
        /\ gate_calls' = 1
        /\ error' = error

\* cv2.cvtColor raises inside detect(): nothing in detect() or run() catches it, so
\* it leaves run() from the line `color = self.detector.detect(frame)`
Abort(fr) ==
    /\ frame' = fr
    /\ running' = FALSE
    /\ error' = "cv2.error"
    /\ UNCHANGED <<target_color, sorted_counts, gate, conveyor, ticks, color,
                   gate_pos, active_objects, key, log, gate_calls, gate_from>>

\* LoopSteps with detect() catching the error and answering UNKNOWN
LoopSteps_default(fr, sp, k, tgt) ==
    \E det \in {IF cvtColor_raises(fr) THEN UNKNOWN ELSE detect(fr)} :
        Steps(fr, det, sp, k, tgt)

\* one iteration of the loop of run() on the frame fr that self.cap() returned
LoopSteps(fr, sp, k, tgt) ==
    IF cvtColor_raises(fr) THEN Abort(fr)
    ELSE \E det \in {detect(fr)} : Steps(fr, det, sp, k, tgt)

\* one iteration of the loop of run(), the target compared being tgt
LoopBody(fc, sp, k, tgt) == LoopSteps(generate_frame(fc), sp, k, tgt)

\* Tick with "Key controls" at the head of the iteration: the key read in an
\* iteration already decides that iteration's comparison
Tick_key_first(fc, sp, k) ==
    /\ running
    /\ ticks < MaxTicks
    /\ sp # <<>> => ticks < SpawnTicks
    /\ LoopBody(fc, sp, k, KeyTarget(k, target_color))

\* Tick without the `break`: the loop goes on after 'q'
Tick_no_break(fc, sp, k) ==
    /\ ticks < MaxTicks
    /\ sp # <<>> => ticks < SpawnTicks
    /\ LoopBody(fc, sp, k, target_color)

\* one iteration of `while True` in run()
Tick(fc, sp, k) ==
    /\ running
    /\ ticks < MaxTicks
    /\ sp # <<>> => ticks < SpawnTicks
    /\ LoopBody(fc, sp, k, target_color)

Next == \E fc \in CameraColors, sp \in Spawns, k \in Keys : Tick(fc, sp, k)

Spec == Init /\ [][Next]_vars

-----------------------------------------------------------------------------
(* run() with self.cap replaced by a frame source that may also hand over a *)
(* frame of one channel                                                     *)

CameraFrames == {generate_frame(c) : c \in CameraColors} \cup {GreyFrame}

CameraTick(fr, sp, k) ==
    /\ running
    /\ ticks < MaxTicks
    /\ sp # <<>> => ticks < SpawnTicks
    /\ LoopSteps(fr, sp, k, target_color)

NextCamera == \E fr \in CameraFrames, sp \in Spawns, k \in Keys : CameraTick(fr, sp, k)

SpecCamera == Init /\ [][NextCamera]_vars

-----------------------------------------------------------------------------
(* a VirtualActuator driven alone: any sequence of set_position and update *)

SetPosition(pos) ==
    /\ gate' = set_position(gate, pos)
    /\ gate_from' = gate.position
    /\ gate_calls' = 0
    /\ UNCHANGED <<target_color, sorted_counts, conveyor, running, ticks, frame,
                   color, gate_pos, active_objects, key, log, error>>

GateUpdate ==
    /\ gate_calls < MaxGateCalls
    /\ gate' = Actuator_update(gate)
    /\ gate_pos' = gate'.position
    /\ gate_calls' = gate_calls + 1
    /\ UNCHANGED <<target_color, sorted_counts, conveyor, running, ticks, frame,
                   color, active_objects, key, log, gate_from, error>>

NextActuator == (\E pos \in {0, 1} : SetPosition(pos)) \/ GateUpdate

SpecActuator == Init /\ [][NextActuator]_vars

-----------------------------------------------------------------------------
(* a VirtualConveyor driven alone: any sequence of add_object and update *)

AddObject(col, id) ==
    /\ Len(conveyor.objects) < MaxTokens
    /\ conveyor.position < SpawnWindow * Speed
    /\ conveyor' = add_object(conveyor, col, id)
    /\ UNCHANGED <<target_color, sorted_counts, gate, running, ticks, frame, color,
                   gate_pos, active_objects, key, log, gate_calls, gate_from, error>>

ConveyorUpdate ==
    /\ conveyor.position < MaxUpdates * Speed
    /\ conveyor' = Conveyor_update(conveyor)
    /\ active_objects' = Conveyor_update_result(conveyor')
    /\ UNCHANGED <<target_color, sorted_counts, gate, running, ticks, frame, color,
                   gate_pos, key, log, gate_calls, gate_from, error>>

NextConveyor ==
    (\E col \in SpawnColors, id \in Ids : AddObject(col, id)) \/ ConveyorUpdate

SpecConveyor == Init /\ [][NextConveyor]_vars

-----------------------------------------------------------------------------
(* detect() alone, on every frame of at most MaxPixels pixels per colour *)

TestFrames == [Palette -> 0 .. MaxPixels]

InitDetect ==
    /\ target_color = RED
    /\ sorted_counts = [c \in ObjectColor |-> 0]
    /\ gate = VirtualActuator
    /\ conveyor = VirtualConveyor
    /\ running = TRUE
    /\ ticks = 0
    /\ frame \in TestFrames
    /\ color = NoColor
    /\ gate_pos = FZero
    /\ active_objects = <<>>
    /\ key = "none"
    /\ log = <<>>
    /\ gate_calls = 0
    /\ gate_from = FZero
    /\ error = "none"

Detect ==
    /\ color = NoColor
    /\ color' = detect(frame)
    /\ UNCHANGED <<target_color, sorted_counts, gate, conveyor, running, ticks, frame,
                   gate_pos, active_objects, key, log, gate_calls, gate_from, error>>

NextDetect == Detect

SpecDetect == InitDetect /\ [][NextDetect]_vars

-----------------------------------------------------------------------------
(* Properties *)

Range(seq) == {seq[i] : i \in 1 .. Len(seq)}

TargetColors == {RED, GREEN, BLUE}

\* C1: in every tick, the tally entry of colour C grows by exactly 1 if and only if
\* the tick's frame classifies as C and C is the target in force at that tick; every
\* other entry, and every entry of a tick without a match, stays as it was.
C1_TallyPerTick ==
    [][ticks' = ticks + 1 =>
        /\ color' = detect(frame')
        /\ \A c \in ObjectColor :
              sorted_counts'[c] =
                  sorted_counts[c] + (IF color' = c /\ c = target_color THEN 1 ELSE 0)
      ]_vars

\* C1 witness: two ticks matched under two different targets and the last one did not
C1_Witness ==
    /\ ticks = 3
    /\ sorted_counts[RED] = 1
    /\ sorted_counts[GREEN] = 1
    /\ log[3][1] # log[3][2]

\* C2: after any sequence of add_object and update calls, every token the conveyor
\* holds has a position in [0, 100).
C2_LiveSetInTravel ==
    \A i \in 1 .. Len(conveyor.objects) :
        /\ 0 <= conveyor.objects[i].position
        /\ conveyor.objects[i].position < TravelLimit

\* C3: after any sequence of set_position(0 or 1) and update() calls from the closed
\* actuator, the actuator position is within [0, 1].
C3_PositionInUnitInterval ==
    FLe(FZero, gate.position) /\ FLe(gate.position, FOne)

StrictlyMost(x, y, z) == x > y /\ x > z

\* C4: detect returns RED, GREEN or BLUE exactly when that label's pixel count is
\* strictly greater than both other counts, and UNKNOWN in every other case; counts of
\* 50, 50, 0 give UNKNOWN and counts of 50, 49, 0 give RED.
C4_StrictDominance ==
    /\ color # NoColor =>
          LET r == red_count(frame)
              g == green_count(frame)
              b == blue_count(frame)
          IN  /\ color = RED <=> StrictlyMost(r, g, b)
              /\ color = GREEN <=> StrictlyMost(g, r, b)
              /\ color = BLUE <=> StrictlyMost(b, r, g)
              /\ color = UNKNOWN <=>
                    ~(StrictlyMost(r, g, b) \/ StrictlyMost(g, r, b) \/ StrictlyMost(b, r, g))
    /\ dominant(50, 50, 0) = UNKNOWN
    /\ dominant(50, 49, 0) = RED

\* C4 witness: a frame whose largest count is shared by red and green was classified
C4_Witness ==
    /\ color = UNKNOWN
    /\ red_count(frame) = green_count(frame)
    /\ red_count(frame) > blue_count(frame)

\* C5: a SetTarget key read in tick N does not touch tick N's gate command or tally,
\* both of which follow the target in force before it, and no earlier tally entry; the
\* colour it names is the target that tick N+1 compares.
C5_SetTargetNextTick ==
    [][ticks' = ticks + 1 =>
        /\ gate'.target = (IF color' = target_color THEN 1 ELSE 0)
        /\ \A c \in ObjectColor :
              sorted_counts'[c] =
                  sorted_counts[c] + (IF color' = c /\ c = target_color THEN 1 ELSE 0)
        /\ log'[ticks'][2] = target_color
        /\ key' = "r" => target_color' = RED
        /\ key' = "g" => target_color' = GREEN
        /\ key' = "b" => target_color' = BLUE
        /\ key' \notin {"r", "g", "b"} => target_color' = target_color
      ]_vars

\* C5 witness: 'g' was read in a tick whose frame was green while the target was red:
\* the gate was commanded closed and nothing was counted, and green is the target now
C5_Witness ==
    /\ ticks = 1
    /\ key = "g"
    /\ color = GREEN
    /\ gate.target = 0
    /\ sorted_counts[GREEN] = 0
    /\ target_color = GREEN

\* C6: a token added at position 0 is in the sequence returned by each of the first
\* 199 update() calls after its creation, and the conveyor no longer holds it after
\* the 200th update() call and after every later one.
C6_ExpiresAfter200 ==
    [][conveyor'.position # conveyor.position =>
        \A i \in 1 .. Len(conveyor'.objects) :
            IF conveyor'.objects[i].position < 200 * Speed
                THEN conveyor'.objects[i] \in Range(active_objects')
                ELSE FALSE
      ]_vars

\* C7: from position 0, set_position(1) followed by update() calls reaches a position
\* of at least 0.99 within 10 calls, and up to there the position never exceeds 1.0.
C7_OpensWithinTen ==
    (gate.target = 1 /\ gate_from = FZero /\ gate_calls <= 10) =>
        /\ FLe(gate.position, FOne)
        /\ gate_calls = 10 => FLe(F099, gate.position)

\* C7 witness: the tenth update() after set_position(1) at position 0
C7_Witness ==
    /\ gate.target = 1
    /\ gate_from = FZero
    /\ gate_calls = 10
    /\ gate_pos = gate.position

\* the scenario of C8: <<color, target>> of ticks 1, 2, 3
Scenario == << <<RED, RED>>, <<GREEN, RED>>, <<RED, RED>> >>

InScenario ==
    /\ ticks >= 1
    /\ ticks <= Len(Scenario)
    /\ log = SubSeq(Scenario, 1, ticks)
    /\ conveyor.objects = <<>>

\* C8: each tick classifies, commands the gate (open iff the detected colour is the
\* target), then steps the actuator once and the conveyor once, so the gate position a
\* tick reports already follows that tick's command; and from the fresh state with
\* target RED and no spawns, frames classifying RED, GREEN, RED leave gate positions
\* 0.1, 0.0, 0.1 and the tally RED=2, GREEN=BLUE=UNKNOWN=0.
C8_TickOrderAndScenario ==
    /\ [][ticks' = ticks + 1 =>
            LET cmd == IF color' = target_color THEN 1 ELSE 0
            IN  /\ gate' = Actuator_update([gate EXCEPT !.target = cmd])
                /\ gate_pos' = gate'.position
                /\ conveyor'.position = conveyor.position + Speed
                /\ \A i \in 1 .. Len(conveyor.objects) :
                      conveyor'.objects[i].position = conveyor.objects[i].position + Speed
       ]_vars
    /\ [](InScenario =>
            /\ ticks = 1 => gate_pos = FTenth
            /\ ticks = 2 => gate_pos = FZero
            /\ ticks = 3 =>
                  /\ gate_pos = FTenth
                  /\ sorted_counts = [c \in ObjectColor |-> IF c = RED THEN 2 ELSE 0])

\* C8 witness: the third tick of the scenario
C8_Witness == InScenario /\ ticks = 3

\* C9: no two tokens the conveyor holds share an identifier.
C9_UniqueIds ==
    \A i, j \in 1 .. Len(conveyor.objects) :
        i # j => conveyor.objects[i].id # conveyor.objects[j].id

\* C10: target_color is always RED, GREEN or BLUE, so a detection of UNKNOWN is
\* always answered by commanding the gate closed, and tally[UNKNOWN] is always 0.
C10_TargetNeverUnknown ==
    /\ target_color \in TargetColors
    /\ GateCommand(UNKNOWN, target_color) = 0
    /\ color = UNKNOWN => gate.target = 0
    /\ sorted_counts[UNKNOWN] = 0

\* C10 witness: the keys have moved the target through all three colours
C10_Witness ==
    /\ ticks = 3
    /\ log[1][2] = RED
    /\ log[2][2] = GREEN
    /\ log[3][2] = BLUE
    /\ target_color = RED

\* C11: when the frame of a tick is invalid the tick is aborted and the failure
\* leaves the loop: no colour is put in place of the classification, and the tally,
\* the actuator target and position and the conveyor stay as they were before the
\* tick.
C11_InvalidFrameAborts ==
    [][cvtColor_raises(frame') =>
        /\ error' = "cv2.error"
        /\ ~running'
        /\ color' = color
        /\ log' = log
        /\ sorted_counts' = sorted_counts
        /\ gate' = gate
        /\ gate_pos' = gate_pos
        /\ conveyor' = conveyor
        /\ active_objects' = active_objects
        /\ target_color' = target_color
      ]_vars

\* C11 witness: the third frame was invalid, after a tick that counted and spawned
C11_Witness ==
    /\ cvtColor_raises(frame)
    /\ error = "cv2.error"
    /\ ticks = 2
    /\ sorted_counts[RED] = 1
    /\ Len(conveyor.objects) = 1
    /\ gate.position = FTenth

\* C12: the loop has ended if and only if Stop ('q') was read; the tick that reads it
\* runs all its steps (tally, gate command, actuator step, conveyor step); nothing
\* changes afterwards; and as long as Stop has not been read a further tick can run
\* (up to the MaxTicks ticks explored).
C12_StopsOnlyOnStop ==
    /\ [](~running <=> key = "q")
    /\ [](error = "none")
    /\ []((running /\ ticks < MaxTicks) => ENABLED Next)
    /\ [][~running => FALSE]_vars
    /\ [][key' = "q" =>
            /\ ticks' = ticks + 1
            /\ gate'.target = (IF color' = target_color THEN 1 ELSE 0)
            /\ gate'.position = Actuator_update([gate EXCEPT !.target = gate'.target]).position
            /\ conveyor'.position = conveyor.position + Speed
            /\ sorted_counts'[color'] =
                  sorted_counts[color'] + (IF color' = target_color THEN 1 ELSE 0)
       ]_vars

\* C12 witness: Stop was read in the second tick, which counted its red frame and
\* stepped the gate and the conveyor
C12_Witness ==
    /\ ~running
    /\ key = "q"
    /\ ticks = 2
    /\ sorted_counts[RED] = 2
    /\ gate.position = FAdd(FTenth, FTenth)
    /\ conveyor.position = 2 * Speed

\* C13: set_position changes the actuator's target and nothing else of it, the
\* position in particular; the position changes only in update(), which leaves the
\* target alone.
C13_SetPositionKeepsPosition ==
    [][/\ gate_calls' = 0 => gate'.position = gate.position
       /\ gate'.position # gate.position =>
             /\ gate_calls' = gate_calls + 1
             /\ gate'.target = gate.target
             /\ gate_pos' = gate'.position
      ]_vars

\* C13 witness: the gate was commanded closed at position 0.2 and has not moved yet
C13_Witness ==
    /\ gate_calls = 0
    /\ gate.target = 0
    /\ gate.position = FAdd(FTenth, FTenth)

\* C14: the tally always has exactly one entry for each of RED, GREEN, BLUE and
\* UNKNOWN, each a non-negative integer; all entries are 0 in the initial state; and no
\* step ever lowers an entry.
C14_TallyShape ==
    /\ [](/\ DOMAIN sorted_counts = ObjectColor
          /\ \A c \in ObjectColor : sorted_counts[c] \in Nat
          /\ ticks = 0 => \A c \in ObjectColor : sorted_counts[c] = 0)
    /\ [][\A c \in ObjectColor : sorted_counts'[c] >= sorted_counts[c]]_vars

\* C14 witness: ticks have counted under two targets, the target has changed again
\* and an object has been spawned
C14_Witness ==
    /\ ticks = 3
    /\ sorted_counts[RED] = 1
    /\ sorted_counts[BLUE] = 1
    /\ target_color = GREEN
    /\ Len(conveyor.objects) = 1

\* C15: update() adds exactly 0.5 to the position of every token and changes no
\* colour or identifier; add_object changes no token already there and puts the new
\* one at position 0; so positions never decrease, and a token added and then updated
\* once is at exactly 0.5, in the conveyor and in the sequence update() returned.
C15_UpdateAdvancesByHalf ==
    [][LET old == conveyor.objects
           new == conveyor'.objects
       IN  IF conveyor'.position # conveyor.position
           THEN /\ Len(new) = Len(old)
                /\ \A i \in 1 .. Len(old) :
                      /\ new[i].position = old[i].position + Speed
                      /\ new[i].color = old[i].color
                      /\ new[i].id = old[i].id
                      /\ old[i].position = 0 =>
                            /\ new[i].position = Speed
                            /\ new[i] \in Range(active_objects')
           ELSE /\ Len(new) = Len(old) + 1
                /\ \A i \in 1 .. Len(old) : new[i] = old[i]
                /\ new[Len(new)].position = 0
      ]_vars

\* C15 witness: two tokens of different colours, one updated three times, the other
\* added later and updated once
C15_Witness ==
    /\ Len(conveyor.objects) = 2
    /\ conveyor.objects[1].position = 3 * Speed
    /\ conveyor.objects[2].position = Speed
    /\ conveyor.objects[1].color # conveyor.objects[2].color
    /\ conveyor.objects[2] \in Range(active_objects)

\* what the next update() does to an actuator: the comparison of position and target
Phase(g) ==
    IF FLt(g.position, IntToFloat(g.target)) THEN "OPENING"
    ELSE IF FLt(IntToFloat(g.target), g.position) THEN "CLOSING"
    ELSE "HOLDING"

\* C16: while the target stays the same, an update() never takes the actuator from
\* OPENING to CLOSING or from CLOSING to OPENING (it reaches HOLDING instead of passing
\* the target), and once HOLDING every update() leaves the position unchanged.
C16_NoOscillation ==
    [][gate'.target = gate.target =>
        /\ ~(Phase(gate) = "OPENING" /\ Phase(gate') = "CLOSING")
        /\ ~(Phase(gate) = "CLOSING" /\ Phase(gate') = "OPENING")
        /\ Phase(gate) = "HOLDING" => gate'.position = gate.position
      ]_vars

\* C17: what update() returns is exactly the stored tokens with position below the
\* travel limit (100, i.e. 200 units of 0.5), in insertion order; positions never
\* increase along insertion order, so the tokens left out are the earliest added ones:
\* no later-added token is left out while an earlier-added one is returned.
C17_ReturnsLiveInOrder ==
    [][conveyor'.position # conveyor.position =>
        LET objs == conveyor'.objects
            res  == active_objects'
        IN  /\ \A i, j \in 1 .. Len(objs) :
                  i < j => objs[i].position >= objs[j].position
            /\ \E n \in 0 .. Len(objs) :
                  /\ \A i \in 1 .. n : objs[i].position >= TravelLimit
                  /\ \A i \in (n + 1) .. Len(objs) : objs[i].position < TravelLimit
                  /\ res = SubSeq(objs, n + 1, Len(objs))
      ]_vars

\* C17 witness: of two tokens the first has reached the limit and the result of
\* update() is the second one alone
C17_Witness ==
    /\ Len(conveyor.objects) = 2
    /\ conveyor.objects[1].position >= TravelLimit
    /\ conveyor.objects[2].position < TravelLimit
    /\ conveyor.objects[2].position > 0
    /\ active_objects = <<conveyor.objects[2]>>

C19_SpawnAfterConveyorStep ==
    [][ticks' = ticks + 1 =>
        LET old  == conveyor.objects
            new  == conveyor'.objects
            live == active_objects'
        IN  /\ \A i \in 1 .. Len(live) : live[i].position >= Speed
            /\ Len(live) <= Len(old)
            /\ Len(new) > Len(old) =>
                  /\ new[Len(new)].position = 0
                  /\ new[Len(new)] \notin Range(live)
            /\ \A i \in 1 .. Len(old) :
                  old[i].position = 0 =>
                     [old[i] EXCEPT !.position = Speed] \in Range(live)
      ]_vars

\* C19 witness: the token spawned in the first iteration, stored but not presented by
\* it, is presented by the second iteration at position 0.5
C19_Witness ==
    /\ ticks = 2
    /\ Len(conveyor.objects) = 1
    /\ conveyor.objects[1].position = Speed
    /\ active_objects = <<conveyor.objects[1]>>

=============================================================================
